---- MODULE Spec2Model ----
(***************************************************************************)
(* texbuild: TexBuild (src/texbuild/build.py) and its helpers              *)
(* (src/texbuild/arbitrary.py) as a state machine over the project's       *)
(* three directories, the process working directory and the position of    *)
(* the running command.                                                    *)
(*                                                                         *)
(* A directory is a record [k, f]: k is the kind of the path ("absent",    *)
(* "dir", or "file" when a regular file occupies it) and f maps each file  *)
(* name to its contents, a version number in 1..MaxVer, or to 0 when the   *)
(* file does not exist.                                                    *)
(***************************************************************************)
EXTENDS Integers, Sequences, FiniteSets, TLC

\* Number of distinct file contents the model tells apart.
MaxVer == 2

Contents == 1..MaxVer

SrcNames == {"main.tex"}
BldNames == {"main.tex", "main.pdf", "extra.aux"}
DstNames == {"main.pdf", "out.pdf"}

Stages == {"sync", "compile", "publish"}

\* Python values that are None, a str or a list, as one record shape.
None == [tag |-> "none", s |-> "", l |-> <<>>]
Str(x) == [tag |-> "str", s |-> x, l |-> <<>>]
List(x) == [tag |-> "list", s |-> "", l |-> x]

\* Values the callers of the model pass.
Documents == {"main"}
PdfArgs == {None, Str("out")}
OptArgs == {None, List(<<"-g", "-draftmode">>)}

\* The (pdf_filename, latexmk_opts) pairs passed to build_document and loop:
\* both left out, or both given.
ApiArgs == {<<p, o>> \in PdfArgs \X OptArgs : p.tag = "none" <=> o.tag = "none"}

EmptyDir(names) == [n \in names |-> 0]
AbsentPath(names) == [k |-> "absent", f |-> EmptyDir(names)]

VARIABLES
    root,   \* kind of tex_root: "absent" or "dir"
    src,    \* tex_root/src
    bld,    \* tex_root/bld
    dst,    \* tex_root/dst
    cwd,    \* working directory of the process: "start" or "bld"
    cur_dir,\* having_cwd's saved directory ("none" outside the block)
    cmd,    \* the operation running, or the last one run
    pc,     \* its position: "idle", "sync", "compile", "in_cwd", "publish", "watch"
    ret,    \* how the last operation ended: "none", "returned", "raised"
    call,   \* the arguments of the operation
    tx      \* what the current build transaction has done so far

vars == <<root, src, bld, dst, cwd, cur_dir, cmd, pc, ret, call, tx>>

fsvars == <<root, src, bld, dst>>

----------------------------------------------------------------------------
\* arbitrary.py

default_ignored(x, default_value) == default_value

default(x, default_value) ==
    IF x.tag = "none" THEN default_value ELSE x

\* os.mkdir(d): the parent must be a directory and d must not exist.
os_mkdir(parent, k) ==
    IF parent = "absent" THEN [exc |-> "FileNotFoundError", k |-> k, parent |-> parent]
    ELSE IF parent = "file" THEN [exc |-> "NotADirectoryError", k |-> k, parent |-> parent]
    ELSE IF k # "absent" THEN [exc |-> "FileExistsError", k |-> k, parent |-> parent]
    ELSE [exc |-> "none", k |-> "dir", parent |-> parent]

\* os.makedirs(d, exist_ok): creates the missing parents; an existing d is
\* accepted only when it is a directory and exist_ok is set.
os_makedirs(parent, k, exist_ok) ==
    IF parent = "file" THEN [exc |-> "NotADirectoryError", k |-> k, parent |-> parent]
    ELSE IF k = "absent" THEN [exc |-> "none", k |-> "dir", parent |-> "dir"]
    ELSE IF k = "dir" /\ exist_ok THEN [exc |-> "none", k |-> k, parent |-> parent]
    ELSE [exc |-> "FileExistsError", k |-> k, parent |-> parent]

makedir_strict(parent, k, exists_ok, recursive) ==
    IF recursive THEN os_makedirs(parent, k, FALSE) ELSE os_mkdir(parent, k)

makedir(parent, k, exists_ok, recursive) ==
    IF recursive THEN os_makedirs(parent, k, exists_ok)
    ELSE LET r == os_mkdir(parent, k)
         IN IF r.exc = "FileExistsError" /\ exists_ok
            THEN [r EXCEPT !.exc = "none"]
            ELSE r

having_cwd_no_finally(saved, now, e) ==
    IF e = "none" THEN saved ELSE now

\* having_cwd's finally clause: whatever left the block, chdir(cur_dir).
having_cwd_exit(saved, now, e) == saved

----------------------------------------------------------------------------
\* build.py

\* subprocess.run(cmd, check=...) on a process that exited with rc.
run(rc, check) ==
    IF check /\ rc # 0 THEN "CalledProcessError" ELSE "none"

unchecked == FALSE

\* The check= argument of each run call (lines 99, 109, 147).
rsync_check == FALSE
latexmk_check == TRUE
watch_check == FALSE

build_command(tex_filename, latexmk_opts) ==
    <<"latexmk", "-halt-on-error", "-interaction=nonstopmode",
      "-pdflatex=lualatex", "-pdf", tex_filename \o ".tex">> \o latexmk_opts

\* str + suffix; a list on the left raises TypeError.
add_suffix(x, suffix) ==
    IF x.tag = "str" THEN [exc |-> "none", s |-> x.s \o suffix]
    ELSE [exc |-> "TypeError", s |-> ""]

catches_nothing(e) == FALSE

catches_interrupt_too(e) == e \in {"CalledProcessError", "KeyboardInterrupt"}

\* build_document's except clause.
build_catches(e) == e = "CalledProcessError"

loop_catches_errors_only(e) == e # "KeyboardInterrupt"

\* loop's except clause.
loop_catches(e) == e = "KeyboardInterrupt"

loop_never_waits(after) == "sync"

\* loop's body, lines 152-153: after build_document comes
\* wait_for_code_changes, after wait_for_code_changes the next build_document.
loop_next(after) ==
    IF after = "build" THEN "watch" ELSE "sync"

\* run_args: how the command line's namespace becomes build_document's
\* (tex_filename, pdf_filename, latexmk_opts).
run_args_call(document, ns_opts) ==
    [via |-> "cli", ns_opts |-> ns_opts, tex_filename |-> document,
     pdf_filename |-> ns_opts, latexmk_opts |-> None]

api_call(document, pdf, opts) ==
    [via |-> "api", ns_opts |-> None, tex_filename |-> document,
     pdf_filename |-> pdf, latexmk_opts |-> opts]

NoCall == api_call("main", None, None)

NewTx ==
    [ran |-> {}, exc |-> "none", at |-> "none", result |-> "none",
     rsync |-> "none", latexmk |-> "none", cmdline |-> <<>>,
     dst0 |-> dst, encountered_errors |-> FALSE,
     bld0 |-> AbsentPath(BldNames), failed |-> {},
     md |-> [path |-> "none", exists_ok |-> FALSE, recursive |-> FALSE],
     again |-> FALSE]

\* rsync -av src/ bld once it has transferred the files S: each of them is
\* copied over its counterpart, nothing else in BuildDir is touched.
rsync_delete(sf, bf, S) ==
    [n \in BldNames |-> IF n \in S THEN sf[n]
                        ELSE IF n \in SrcNames /\ sf[n] # 0 THEN bf[n] ELSE 0]

rsync_av(sf, bf, S) ==
    [n \in BldNames |-> IF n \in S THEN sf[n] ELSE bf[n]]

rsync_source_swapped(sf, bf) ==
    [n \in SrcNames |-> bf[n]]

\* SourceDir after rsync -av src/ bld: rsync only reads its source.
rsync_source(sf, bf) == sf

\* build_document, lines 127-128: the arguments after defaulting.
latexmk_opts == default(call.latexmk_opts, List(<<>>))
pdf_filename == default(call.pdf_filename, Str(call.tex_filename))

\* copy_build_files: the ways makedir + rsync can end, as
\* [bld: BuildDir afterwards, exc: exception raised, rsync: exit status].
\* rsync copies every file of SourceDir and deletes nothing; a failing or
\* interrupted rsync has copied some of them.
copy_build_files ==
    LET m == makedir(root, bld.k, TRUE, FALSE)
        b1 == [bld EXCEPT !.k = m.k]
        both == src.k = "dir" /\ b1.k = "dir"
        copyable == IF both THEN {n \in SrcNames : src.f[n] # 0} ELSE {}
        rsynced(S) == [b1 EXCEPT !.f = IF both THEN rsync_av(src.f, b1.f, S) ELSE @]
    IN  IF m.exc # "none"
        THEN {[bld |-> bld, exc |-> m.exc, rsync |-> "none"]}
        ELSE {[bld |-> bld, exc |-> "KeyboardInterrupt", rsync |-> "none"]}
             \cup {[bld |-> b1, exc |-> "FileNotFoundError", rsync |-> "none"]}
             \cup {[bld |-> rsynced(S), exc |-> "KeyboardInterrupt", rsync |-> "none"] :
                      S \in SUBSET copyable}
             \cup {[bld |-> rsynced(S), exc |-> run(1, rsync_check), rsync |-> "nonzero"] :
                      S \in SUBSET copyable}
             \cup (IF both
                   THEN {[bld |-> rsynced(copyable), exc |-> run(0, rsync_check),
                          rsync |-> "zero"]}
                   ELSE {})

\* What the compiler may leave in BuildDir: the artifact written or not, an
\* intermediate file written or not.
compiled(tex_filename) ==
    {[bld EXCEPT !.f = [@ EXCEPT ![tex_filename \o ".pdf"] = p, !["extra.aux"] = a]] :
        p \in {bld.f[tex_filename \o ".pdf"]} \cup Contents,
        a \in {bld.f["extra.aux"], 1}}

\* The body of _run_latexmk_in_bld_dir's with block: the ways run(latexmk,
\* check=True) can end, as [bld, exc, latexmk: exit status].
run_latexmk(tex_filename) ==
    {[bld |-> bld, exc |-> "FileNotFoundError", latexmk |-> "none"]}
    \cup {[bld |-> b, exc |-> "KeyboardInterrupt", latexmk |-> "none"] :
             b \in compiled(tex_filename)}
    \cup {[bld |-> b, exc |-> run(0, latexmk_check), latexmk |-> "zero"] :
             b \in compiled(tex_filename)}
    \cup {[bld |-> b, exc |-> run(1, latexmk_check), latexmk |-> "nonzero"] :
             b \in compiled(tex_filename)}

\* _copy_to_dst: the ways makedir + copy2 can end, as [dst, exc].
copy_to_dst(tex_filename, pdf_name) ==
    LET document_pdf_bld == tex_filename \o ".pdf"
        document_pdf_dst == add_suffix(pdf_name, ".pdf")
        m == makedir(root, dst.k, TRUE, FALSE)
        d1 == [dst EXCEPT !.k = m.k]
    IN  IF document_pdf_dst.exc # "none"
        THEN {[dst |-> dst, exc |-> document_pdf_dst.exc]}
        ELSE IF m.exc # "none"
        THEN {[dst |-> dst, exc |-> m.exc]}
        ELSE {[dst |-> dst, exc |-> "KeyboardInterrupt"],
              [dst |-> d1, exc |-> "KeyboardInterrupt"],
              IF bld.f[document_pdf_bld] = 0
              THEN [dst |-> d1, exc |-> "FileNotFoundError"]
              ELSE IF d1.k # "dir"
              THEN [dst |-> d1, exc |-> "NotADirectoryError"]
              ELSE [dst |-> [d1 EXCEPT !.f[document_pdf_dst.s] = bld.f[document_pdf_bld]],
                    exc |-> "none"]}

always_exists(k) == TRUE

\* clean, line 164: path.exists(self.tex_bld)
path_exists(k) == k # "absent"

rmtree_abort(bf, F) ==
    IF F = {} THEN [n \in BldNames |-> 0] ELSE bf

\* What rmtree leaves of the entries bf when deleting the entries F fails:
\* each failure goes to onerror and the walk goes on with the next entry.
rmtree_entries(bf, F) ==
    [n \in BldNames |-> IF n \in F THEN bf[n] ELSE 0]

\* clean's report_error, called once per failed deletion.
report_error(failed) == failed # {}

\* shutil.rmtree(tex_bld, onerror=report_error): the ways it can end, as
\* [bld, failed: the paths whose deletion failed ("." is BuildDir itself)].
\* Deleting any of the entries may fail; BuildDir itself cannot be removed
\* while an entry is left, and its own removal may fail too. A path that is
\* no directory cannot be listed or removed as one.
rmtree ==
    IF bld.k = "dir"
    THEN {[bld |-> IF F = {} /\ ~top THEN AbsentPath(BldNames)
                   ELSE [bld EXCEPT !.f = rmtree_entries(bld.f, F)],
           failed |-> IF F = {} /\ ~top THEN {} ELSE F \cup {"."}] :
              F \in SUBSET {n \in BldNames : bld.f[n] # 0}, top \in BOOLEAN}
    ELSE {[bld |-> bld, failed |-> {"."}]}

----------------------------------------------------------------------------
\* States

DirStates(names, kinds, files) ==
    {d \in [k : kinds, f : [names -> 0..1]] :
        /\ d.k # "dir" => d.f = EmptyDir(names)
        /\ \A n \in names \ files : d.f[n] = 0}

Init ==
    /\ root \in {"absent", "dir"}
    /\ src \in DirStates(SrcNames, {"absent", "dir"}, SrcNames)
    /\ bld \in DirStates(BldNames, {"absent", "dir", "file"}, {"main.pdf", "extra.aux"})
    /\ dst \in DirStates(DstNames, {"absent", "dir", "file"}, DstNames)
    /\ root = "absent" => src.k = "absent" /\ bld.k = "absent" /\ dst.k = "absent"
    /\ cwd = "start"
    /\ cur_dir = "none"
    /\ cmd = "none"
    /\ pc = "idle"
    /\ ret = "none"
    /\ call = NoCall
    /\ tx = NewTx

----------------------------------------------------------------------------
\* Operations

\* build_document's try statement: the stage st raised e (or, with e "none",
\* the last stage returned). t is the transaction record so far.
EndBuild(t, e, st) ==
    LET res == IF e = "none" THEN "True"
               ELSE IF build_catches(e) THEN "False" ELSE "raised"
        out == IF res = "raised" THEN e ELSE "none"
    IN  /\ tx' = [t EXCEPT !.exc = e, !.at = IF e = "none" THEN "none" ELSE st,
                           !.result = res]
        /\ IF cmd = "loop"
           THEN IF out = "none"
                THEN pc' = loop_next("build") /\ ret' = "none"
                ELSE pc' = "idle" /\
                     ret' = IF loop_catches(out) THEN "returned" ELSE "raised"
           ELSE pc' = "idle" /\ ret' = IF out = "none" THEN "returned" ELSE "raised"

\* TexBuild.init_dirs()
InitDirs ==
    /\ pc = "idle"
    /\ LET m1 == makedir("dir", root, TRUE, TRUE)
           m2 == makedir(m1.k, src.k, TRUE, FALSE)
       IN  /\ root' = m1.k
           /\ src' = IF m1.exc = "none" THEN [src EXCEPT !.k = m2.k] ELSE src
           /\ ret' = IF m1.exc = "none" /\ m2.exc = "none" THEN "returned" ELSE "raised"
    /\ cmd' = "init_dirs"
    /\ call' = NoCall
    /\ tx' = NewTx
    /\ UNCHANGED <<bld, dst, cwd, cur_dir, pc>>

\* TexBuild.copy_build_files(), called on its own (the copy command).
Copy ==
    /\ pc = "idle"
    /\ \E o \in copy_build_files :
          /\ bld' = o.bld
          /\ tx' = [NewTx EXCEPT !.ran = {"sync"}, !.rsync = o.rsync, !.exc = o.exc,
                                 !.at = IF o.exc = "none" THEN "none" ELSE "sync"]
          /\ ret' = IF o.exc = "none" THEN "returned" ELSE "raised"
    /\ src' = [src EXCEPT !.f = rsync_source(src.f, bld.f)]
    /\ cmd' = "copy"
    /\ call' = NoCall
    /\ UNCHANGED <<root, dst, cwd, cur_dir, pc>>

\* TexBuild.clean()
Clean ==
    /\ pc = "idle"
    /\ \E r \in IF path_exists(bld.k) THEN rmtree ELSE {[bld |-> bld, failed |-> {}]} :
          /\ bld' = r.bld
          /\ tx' = [NewTx EXCEPT !.encountered_errors = report_error(r.failed),
                                 !.failed = r.failed, !.bld0 = bld]
    /\ cmd' = "clean"
    /\ ret' = "returned"
    /\ call' = NoCall
    /\ UNCHANGED <<root, src, dst, cwd, cur_dir, pc>>

\* The kind of tex_root/p.
PathKind(p) == IF p = "bld" THEN bld.k ELSE dst.k

\* makedir(tex_root, p, exists_ok=ok, recursive=rec), called on its own.
\* tx.again tells that the call repeats the one before it, which returned.
Makedir ==
    /\ pc = "idle"
    /\ \E p \in {"bld", "dst"}, ok \in BOOLEAN, rec \in BOOLEAN :
          LET r == makedir(root, PathKind(p), ok, rec)
              m == [path |-> p, exists_ok |-> ok, recursive |-> rec]
          IN  /\ root' = r.parent
              /\ bld' = IF p = "bld" THEN [bld EXCEPT !.k = r.k] ELSE bld
              /\ dst' = IF p = "dst" THEN [dst EXCEPT !.k = r.k] ELSE dst
              /\ tx' = [NewTx EXCEPT !.md = m, !.exc = r.exc,
                          !.again = (cmd = "makedir" /\ ret = "returned" /\ tx.md = m)]
              /\ ret' = IF r.exc = "none" THEN "returned" ELSE "raised"
    /\ cmd' = "makedir"
    /\ call' = NoCall
    /\ UNCHANGED <<src, cwd, cur_dir, pc>>

\* A call of c ("build": build_document, "loop": loop) with arguments a.
Start(c, a) ==
    /\ pc = "idle"
    /\ cmd' = c
    /\ call' = a
    /\ pc' = "sync"
    /\ ret' = "none"
    /\ tx' = NewTx
    /\ UNCHANGED <<fsvars, cwd, cur_dir>>

\* tb.build_document(tex_filename, pdf_filename, latexmk_opts)
BuildDocument ==
    \E d \in Documents, a \in ApiArgs : Start("build", api_call(d, a[1], a[2]))

\* tb.loop(tex_filename, pdf_filename, latexmk_opts)
Loop ==
    \E d \in Documents, a \in ApiArgs : Start("loop", api_call(d, a[1], a[2]))

\* run_args(ns) with ns.cmd == "build"
RunArgsBuild ==
    \E d \in Documents, o \in OptArgs : Start("build", run_args_call(d, o))

\* run_args(ns) with ns.cmd == "loop"
RunArgsLoop ==
    \E d \in Documents, o \in OptArgs : Start("loop", run_args_call(d, o))

\* build_document, line 131: self.copy_build_files()
Sync ==
    /\ pc = "sync"
    /\ \E o \in copy_build_files :
          /\ bld' = o.bld
          /\ LET t == [tx EXCEPT !.ran = @ \cup {"sync"}, !.rsync = o.rsync]
             IN  IF o.exc = "none"
                 THEN tx' = t /\ pc' = "compile" /\ ret' = ret
                 ELSE EndBuild(t, o.exc, "sync")
    /\ src' = [src EXCEPT !.f = rsync_source(src.f, bld.f)]
    /\ UNCHANGED <<root, dst, cwd, cur_dir, cmd, call>>

\* build_document, line 132, up to the body of the with block: having_cwd
\* saves the working directory and changes into BuildDir; when chdir raises,
\* the finally clause runs at once.
CompileEnter ==
    /\ pc = "compile"
    /\ LET t == [tx EXCEPT !.ran = @ \cup {"compile"}]
           e == IF bld.k = "dir" THEN "none"
                ELSE IF bld.k = "file" THEN "NotADirectoryError"
                ELSE "FileNotFoundError"
       IN  IF e = "none"
           THEN /\ cur_dir' = cwd
                /\ cwd' = "bld"
                /\ tx' = t
                /\ pc' = "in_cwd"
                /\ ret' = ret
           ELSE /\ cur_dir' = "none"
                /\ cwd' = having_cwd_exit(cwd, cwd, e)
                /\ EndBuild(t, e, "compile")
    /\ UNCHANGED <<fsvars, cmd, call>>

\* The with block of _run_latexmk_in_bld_dir and having_cwd's finally.
CompileRun ==
    /\ pc = "in_cwd"
    /\ \E o \in run_latexmk(call.tex_filename) :
          /\ bld' = o.bld
          /\ cwd' = having_cwd_exit(cur_dir, cwd, o.exc)
          /\ cur_dir' = "none"
          /\ LET t == [tx EXCEPT !.latexmk = o.latexmk,
                          !.cmdline = IF o.exc = "FileNotFoundError" THEN <<>>
                                      ELSE build_command(call.tex_filename, latexmk_opts.l)]
             IN  IF o.exc = "none"
                 THEN tx' = t /\ pc' = "publish" /\ ret' = ret
                 ELSE EndBuild(t, o.exc, "compile")
    /\ UNCHANGED <<root, src, dst, cmd, call>>

\* build_document, lines 133-136: self._copy_to_dst(...), then success.
Publish ==
    /\ pc = "publish"
    /\ \E o \in copy_to_dst(call.tex_filename, pdf_filename) :
          /\ dst' = o.dst
          /\ EndBuild([tx EXCEPT !.ran = @ \cup {"publish"}], o.exc, "publish")
    /\ UNCHANGED <<root, src, bld, cwd, cur_dir, cmd, call>>

\* loop, line 153: wait_for_code_changes(). inotifywait returns with some
\* exit status (run without check), cannot be started, or is interrupted.
Watch ==
    /\ pc = "watch"
    /\ \E e \in {run(0, watch_check), run(1, watch_check),
                 "FileNotFoundError", "KeyboardInterrupt"} :
          IF e = "none"
          THEN /\ pc' = loop_next("watch")
               /\ tx' = NewTx
               /\ ret' = ret
          ELSE /\ pc' = "idle"
               /\ tx' = [tx EXCEPT !.exc = e, !.at = "watch"]
               /\ ret' = IF loop_catches(e) THEN "returned" ELSE "raised"
    /\ UNCHANGED <<fsvars, cwd, cur_dir, cmd, call>>

\* Someone edits, creates or deletes a source file.
EditSrc ==
    /\ pc \in {"idle", "watch"}
    /\ src.k = "dir"
    /\ \E n \in SrcNames, v \in 0..MaxVer :
          /\ v # src.f[n]
          /\ src' = [src EXCEPT !.f[n] = v]
    /\ UNCHANGED <<root, bld, dst, cwd, cur_dir, cmd, pc, ret, call, tx>>

Next ==
    \/ InitDirs
    \/ Copy
    \/ Clean
    \/ Makedir
    \/ BuildDocument
    \/ Loop
    \/ RunArgsBuild
    \/ RunArgsLoop
    \/ Sync
    \/ CompileEnter
    \/ CompileRun
    \/ Publish
    \/ Watch
    \/ EditSrc

Spec == Init /\ [][Next]_vars

----------------------------------------------------------------------------
\* Properties

Building == cmd \in {"build", "loop"}

\* The fixed arguments of the compiler's command line.
FixedTemplate ==
    <<"latexmk", "-halt-on-error", "-interaction=nonstopmode", "-pdflatex=lualatex", "-pdf">>

\* The name the caller asked the artifact to be published under.
AskedPdfName ==
    IF call.pdf_filename.tag = "none" THEN call.tex_filename \o ".pdf"
    ELSE call.pdf_filename.s \o ".pdf"

\* C1: in a build transaction whose compiler exits non-zero, build_document
\* returns False, the publish step is not executed and DestDir is exactly
\* what it was when the transaction started.
C1_CompileFailureLeavesDst ==
    (Building /\ tx.latexmk = "nonzero") =>
        /\ tx.result = "False"
        /\ "publish" \notin tx.ran
        /\ dst = tx.dst0

\* C1 witness: a failed compile that left an artifact in BuildDir which
\* differs from the one in DestDir.
C1_Witness ==
    /\ Building
    /\ tx.latexmk = "nonzero"
    /\ tx.result = "False"
    /\ dst.k = "dir"
    /\ bld.f["main.pdf"] # 0
    /\ bld.f["main.pdf"] # dst.f["main.pdf"]

\* C2: when the file-mirroring process exits non-zero, the transaction
\* executes neither the compile stage nor the publish stage and
\* build_document reports failure.
C2_SyncFailureSkipsLaterStages ==
    (Building /\ tx.rsync = "nonzero") =>
        /\ pc \notin {"compile", "in_cwd", "publish"}
        /\ "compile" \notin tx.ran
        /\ "publish" \notin tx.ran
        /\ tx.result = "False"

\* C3: the build command run from the command line with a non-empty list of
\* extra options invokes the compiler with the fixed template, the document
\* name with ".tex" and then exactly those options, and what it publishes is
\* named after the document.
C3_CliOptionsAppended ==
    (cmd = "build" /\ call.via = "cli" /\ call.ns_opts.tag = "list"
       /\ Len(call.ns_opts.l) > 0) =>
        /\ tx.cmdline # <<>> =>
             tx.cmdline = FixedTemplate \o <<call.tex_filename \o ".tex">> \o call.ns_opts.l
        /\ tx.exc # "TypeError"
        /\ tx.result = "True" =>
             dst.f[call.tex_filename \o ".pdf"] = bld.f[call.tex_filename \o ".pdf"]

\* C4: a publish-stage failure (the artifact is missing from BuildDir, or
\* DestDir cannot be created or written) makes build_document return False.
C4_PublishFailureReturnsFalse ==
    (Building /\ tx.at = "publish"
       /\ tx.exc \in {"FileNotFoundError", "NotADirectoryError"}) =>
        tx.result = "False"

C6_CwdRestored ==
    pc # "in_cwd" => cwd = "start"

\* C6 witness: the compile step entered BuildDir and was left by an
\* exception.
C6_Witness ==
    /\ tx.at = "compile"
    /\ tx.cmdline # <<>>
    /\ tx.exc \in {"CalledProcessError", "KeyboardInterrupt"}
    /\ cwd = "start"

\* C7: in the loop, a compiler that exits non-zero never ends the loop: the
\* failed build is followed by the change watcher, and when the watcher
\* returns the next build starts.
C7_CompileFailureKeepsLoop ==
    [][/\ (cmd = "loop" /\ pc = "in_cwd" /\ tx'.latexmk = "nonzero") =>
             (pc' = "watch" /\ ret' = "none")
       /\ (cmd = "loop" /\ pc = "watch" /\ tx.latexmk = "nonzero"
             /\ pc' # "watch" /\ tx'.at # "watch") =>
             (pc' = "sync" /\ ret' = "none" /\ tx'.ran = {})]_vars

\* C7 witness: the loop waiting for changes after a failed compile.
C7_Witness ==
    /\ cmd = "loop"
    /\ pc = "watch"
    /\ tx.latexmk = "nonzero"
    /\ tx.result = "False"

C9_InterruptEndsLoopNormally ==
    (cmd = "loop" /\ tx.exc = "KeyboardInterrupt") =>
        (pc = "idle" /\ ret = "returned")

\* C9 witness: the loop interrupted while blocked on the watcher.
C9_Witness ==
    /\ cmd = "loop"
    /\ tx.exc = "KeyboardInterrupt"
    /\ tx.at = "watch"
    /\ ret = "returned"

\* A file of BuildDir with no counterpart in SourceDir.
BuildOnly(n) ==
    /\ bld.f[n] # 0
    /\ n \in SrcNames => src.f[n] = 0

\* C10: no step but clean and the compiler's own run removes or changes a
\* file of BuildDir that has no counterpart in SourceDir; sync in
\* particular, alone or inside a build, leaves it as it is.
C10_SyncKeepsBuildOnlyFiles ==
    [][(pc # "in_cwd" /\ ~(pc = "idle" /\ cmd' = "clean")) =>
          \A n \in BldNames : BuildOnly(n) => bld'.f[n] = bld.f[n]]_vars

\* C10 witness: a sync that copied the sources into a BuildDir holding a
\* build-only file.
C10_Witness ==
    /\ cmd = "copy"
    /\ tx.rsync = "zero"
    /\ bld.f["main.tex"] # 0
    /\ bld.f["extra.aux"] # 0
    /\ bld.f["main.pdf"] # 0

\* C11: clean on a BuildDir that does not exist deletes nothing, records no
\* error and returns normally.
C11_CleanOfAbsentIsNoop ==
    (cmd = "clean" /\ tx.bld0.k = "absent") =>
        /\ bld = tx.bld0
        /\ tx.failed = {}
        /\ ~tx.encountered_errors
        /\ ret = "returned"

\* C11 witness: clean has run on a project whose BuildDir did not exist.
C11_Witness ==
    /\ cmd = "clean"
    /\ root = "dir"
    /\ tx.bld0.k = "absent"
    /\ bld.k = "absent"

\* C12: when deleting some entry of BuildDir fails, clean still removes
\* every other entry, reports that errors were encountered and returns
\* normally.
C12_CleanGoesOnAfterFailure ==
    (cmd = "clean" /\ tx.failed \cap BldNames # {}) =>
        /\ ret = "returned"
        /\ tx.encountered_errors
        /\ bld.k = "dir"
        /\ \A n \in BldNames :
              bld.f[n] = IF n \in tx.failed THEN tx.bld0.f[n] ELSE 0

\* C12 witness: clean could not delete extra.aux and did delete main.pdf.
C12_Witness ==
    /\ cmd = "clean"
    /\ tx.failed \cap BldNames = {"extra.aux"}
    /\ tx.bld0.f["main.pdf"] # 0
    /\ bld.f["main.pdf"] = 0
    /\ bld.f["extra.aux"] # 0

\* C13: a call of makedir with exists_ok=True that repeats a call which
\* returned normally returns normally too and changes nothing in the file
\* system, with recursive=False and with recursive=True.
C13_MakedirIdempotent ==
    [][(pc = "idle" /\ cmd' = "makedir" /\ src' = src /\ tx'.again
          /\ tx'.md.exists_ok) =>
          (ret' = "returned" /\ fsvars' = fsvars)]_vars

\* C13 witness: makedir has been called a second time on a directory it
\* had created, in either mode.
C13_Witness ==
    /\ cmd = "makedir"
    /\ tx.again
    /\ tx.md.exists_ok
    /\ ~tx.md.recursive
    /\ ret = "returned"
    /\ PathKind(tx.md.path) = "dir"
    /\ bld.f["extra.aux"] # 0

\* C17: whenever makedir(path, exists_ok=True) returns normally, path is a
\* directory, in both modes; the modes agree on whether a path occupied by a
\* regular file is an error.
C17_MakedirLeavesDirectory ==
    (cmd = "makedir" /\ ret = "returned" /\ tx.md.exists_ok) =>
        /\ PathKind(tx.md.path) = "dir"
        /\ makedir(root, PathKind(tx.md.path), TRUE, ~tx.md.recursive).exc = "none"

\* C14: the loop ends only because of an interrupt: whatever a build
\* transaction or the change watcher does, once loop has ended it has
\* handled a KeyboardInterrupt and returned normally.
C14_LoopEndsOnlyOnInterrupt ==
    (cmd = "loop" /\ pc = "idle") =>
        (tx.exc = "KeyboardInterrupt" /\ ret = "returned")

\* C15: in the loop, builds and watcher calls alternate, starting with a
\* build: loop enters at a build; the watcher starts only in the step in
\* which build_document returns; a build starts only at loop entry or in the
\* step in which the watcher returns; the watcher is left for a build or for
\* the end of the loop.
C15_BuildAndWatchAlternate ==
    [][/\ (pc = "idle" /\ pc' # "idle" /\ cmd' = "loop") =>
             (pc' = "sync" /\ tx' = NewTx)
       /\ (cmd = "loop" /\ pc # "watch" /\ pc' = "watch") =>
             (/\ pc \in {"sync", "compile", "in_cwd", "publish"}
              /\ tx.result = "none"
              /\ tx'.result \in {"True", "False"})
       /\ (cmd = "loop" /\ pc \notin {"sync", "idle"} /\ pc' = "sync") =>
             (pc = "watch" /\ tx' = NewTx)
       /\ (cmd = "loop" /\ pc = "watch" /\ pc' # "watch") =>
             pc' \in {"sync", "idle"}]_vars

\* C15 witness: the loop has started the watcher on the return of a build
\* that went through all three stages.
C15_Witness ==
    /\ cmd = "loop"
    /\ pc = "watch"
    /\ tx.ran = Stages
    /\ tx.result = "True"

\* C16: SourceDir changes only when init_dirs creates it or someone edits
\* it from outside: no step of copy_build_files, build_document, loop or
\* clean creates, modifies or deletes it or anything under it.
C16_SourceDirUntouched ==
    [][src' # src =>
          \/ pc = "idle" /\ cmd' = "init_dirs" /\ src.k = "absent" /\ src'.f = src.f
          \/ /\ src'.k = src.k
             /\ UNCHANGED <<root, bld, dst, cwd, cur_dir, cmd, pc, ret, call, tx>>]_vars

\* C16 witness: clean has removed a BuildDir that held a copy of a source
\* file, and the source file is still there.
C16_Witness ==
    /\ cmd = "clean"
    /\ tx.bld0.f["main.tex"] # 0
    /\ bld.k = "absent"
    /\ src.k = "dir"
    /\ src.f["main.tex"] = tx.bld0.f["main.tex"]

====
